---- MODULE Spec2Model ----
(***************************************************************************)
(* The ledger core of src/index.tsx: the balance computation of            *)
(* GroupDetail / SettlementScreen (the `balances` memo) and the settlement *)
(* planner calculateSettlements; and the App around it: its state, the    *)
(* load and save effects on localStorage, login, logout, handleAddExpense  *)
(* and the expense form of GroupDetail.                                    *)
(*                                                                         *)
(* Numbers.  The program computes on IEEE doubles.  The model writes a     *)
(* number as an integer counted in ticks: 0.01 currency units are Cent     *)
(* ticks, and Cent is the least common multiple of 1..MaxMembers, so that  *)
(* amount / members.length is a whole number of ticks for every expense    *)
(* amount that is a whole number of 0.01s.  A sum or difference is rounded *)
(* as a double rounds it, to the nearest number with Precision significant *)
(* bits, ties to even; the program has 53 such bits and binary fractions   *)
(* below a tick, the model has Precision bits and none.  Amounts of        *)
(* everyday size are far below 2^Precision ticks, and their sums are       *)
(* exact; what the model says about such sums being zero is said up to the *)
(* rounding of binary fractions.                                           *)
(*                                                                         *)
(* Ids.  Member ids are strings that are not names of Object.prototype     *)
(* properties; "1" and "2" are array-index keys, "a" and "b" are not.      *)
(***************************************************************************)
EXTENDS Integers, Sequences, FiniteSets, TLC

VARIABLES
    members,          \* group.members: sequence of [id, name]
    expenses,         \* group.expenses: sequence of expenses
    processed,        \* number of expenses the forEach has handled
    memberBalances,   \* the accumulator object: [order, props]
    balances,         \* the array returned by the balance computation
    debtors,          \* calculateSettlements: working list of debtors
    creditors,        \* calculateSettlements: working list of creditors
    settlements,      \* calculateSettlements: entries pushed so far
    earlier,          \* what the calls that have returned so far returned
    pc,               \* position of the computation
    user,             \* App state: the logged-in user, or Null
    groups,           \* App state: the groups
    currentView,      \* App state
    selectedGroupId,  \* App state
    isDataLoaded,     \* App state
    pendingInvite,    \* App state: joinData kept for the login, or ""
    syncStatus,       \* App state
    timer,            \* the timeout of the save effect and what it closes over
    storage,          \* localStorage item 'payca-data'
    joinData,         \* the joinData parameter of the URL, or ""
    newExpense,       \* GroupDetail state: the expense form
    error,            \* GroupDetail state: the message of the form
    called            \* the last two App handlers and timeouts that ran

ledgerVars == <<members, expenses, processed, memberBalances, balances,
                debtors, creditors, settlements, earlier, pc>>

appVars == <<user, groups, currentView, selectedGroupId, isDataLoaded,
             pendingInvite, syncStatus, timer, storage, joinData,
             newExpense, error, called>>

vars == <<ledgerVars, appVars>>

-----------------------------------------------------------------------------
(* Bounds *)

MaxMembers == 3
MaxExpenses == 2
MaxSplits == 2
MaxBalances == 5
MaxCalls == 3

\* groups the stored data holds
MaxGroups == 2

\* expenses the group of the expense form holds
MaxSubmitted == 1
Precision == 20

-----------------------------------------------------------------------------
(* Money *)

RECURSIVE Gcd(_, _)
Gcd(a, b) == IF b = 0 THEN a ELSE Gcd(b, a % b)

RECURSIVE LcmUpTo(_)
LcmUpTo(n) ==
    IF n <= 1 THEN 1
    ELSE LET l == LcmUpTo(n - 1) IN (l * n) \div Gcd(l, n)

\* ticks in 0.01 currency units
Cent == LcmUpTo(MaxMembers)

\* ticks in n whole currency units
Lira(n) == n * 100 * Cent

\* the literal 0.01 of the removal tests
Tolerance == Cent

Abs(x) == IF x < 0 THEN 0 - x ELSE x

RECURSIVE Pow2(_)
Pow2(n) == IF n = 0 THEN 1 ELSE 2 * Pow2(n - 1)

\* the spacing of the representable numbers around a >= 0: the least power
\* of two u, from u up, with a < u * 2^Precision
RECURSIVE Spacing(_, _)
Spacing(a, u) ==
    IF a < u * Pow2(Precision) THEN u ELSE Spacing(a, 2 * u)

\* a >= 0 rounded to a multiple of its spacing, nearest, ties to even
RoundMagnitude(a) ==
    LET u == Spacing(a, 1)
        q == a \div u
        r == a % u
    IN  IF 2 * r < u THEN q * u
        ELSE IF 2 * r > u THEN (q + 1) * u
        ELSE IF q % 2 = 0 THEN q * u
        ELSE (q + 1) * u

\* mutation: numbers keep three significant bits
RoundCoarse(x) ==
    LET a == Abs(x)
        u == CHOOSE v \in {Pow2(k) : k \in 0..26} :
                 a < v * 8 /\ (v = 1 \/ a >= (v \div 2) * 8)
        q == a \div u
        m == IF 2 * (a % u) >= u THEN (q + 1) * u ELSE q * u
    IN  IF x < 0 THEN 0 - m ELSE m

\* the double nearest to x
Round(x) == IF x < 0 THEN 0 - RoundMagnitude(0 - x) ELSE RoundMagnitude(x)

\* x + y on doubles
Plus(x, y) == Round(x + y)

\* mutation: the larger of the two
Larger(x, y) == IF x <= y THEN y ELSE x

Min(x, y) == IF x <= y THEN x ELSE y

RECURSIVE SumSeq(_)
SumSeq(s) == IF s = <<>> THEN 0 ELSE Head(s) + SumSeq(Tail(s))

-----------------------------------------------------------------------------
(* Inputs *)

IdPool == {"1", "2", "a"}

NameOf(id) == "name-" \o id

Member(id) == [id |-> id, name |-> NameOf(id)]

Injective(s) == \A i, j \in DOMAIN s : s[i] = s[j] => i = j

IdLists ==
    UNION {{s \in [1..n -> IdPool] : Injective(s)} : n \in 0..MaxMembers}

\* amounts of equal expenses
Amounts == {Lira(90), Lira(100)}

\* amounts of unequal expenses, and of their split entries
UnequalAmounts == {Lira(100)}

SplitAmounts == {Lira(30), Lira(70)}

Splits == [memberId : IdPool, amount : SplitAmounts]

SplitLists == UNION {[1..n -> Splits] : n \in 0..MaxSplits}

\* an expense as stored: splits is [] for an equal split (handleSubmit), and
\* may be absent (hasSplits = FALSE) in data that did not come from the form
EqualExpenses ==
    [paidBy : IdPool, amount : Amounts, splitType : {"equal"},
     hasSplits : {TRUE}, splits : {<<>>}]

UnequalExpenses ==
    [paidBy : IdPool, amount : UnequalAmounts, splitType : {"unequal"},
     hasSplits : {TRUE}, splits : SplitLists]
    \cup
    [paidBy : IdPool, amount : UnequalAmounts, splitType : {"unequal"},
     hasSplits : {FALSE}, splits : {<<>>}]

\* any stored expense
Expenses == EqualExpenses \cup UnequalExpenses

\* the split list the expense form builds for an unequal split: one entry
\* per member, in member order (handleInputChange)
FormSplitLists(mems) ==
    {[i \in DOMAIN mems |-> [memberId |-> mems[i].id, amount |-> f[i]]] :
        f \in [DOMAIN mems -> SplitAmounts]}

\* the expenses the form can have stored for a group
FormExpenses(mems) ==
    EqualExpenses
    \cup
    {[paidBy |-> p, amount |-> a, splitType |-> "unequal",
      hasSplits |-> TRUE, splits |-> sl] :
        p \in IdPool, a \in UnequalAmounts, sl \in FormSplitLists(mems)}

MemberIds(mems) == {mems[i].id : i \in DOMAIN mems}

-----------------------------------------------------------------------------
(* A JavaScript object with string keys: its own properties and the order  *)
(* in which the keys were created.                                         *)

EmptyObject == [order |-> <<>>, props |-> <<>>]

HasOwn(obj, k) == k \in DOMAIN obj.props

\* obj[k] = v
SetProp(obj, k, v) ==
    [order |-> IF HasOwn(obj, k) THEN obj.order ELSE Append(obj.order, k),
     props |-> [x \in DOMAIN obj.props \cup {k} |->
                    IF x = k THEN v ELSE obj.props[x]]]

\* the value of a key that is an array index, -1 for any other key
ArrayIndex(k) == CASE k = "1" -> 1 [] k = "2" -> 2 [] OTHER -> 0 - 1

IsArrayIndex(k) == ArrayIndex(k) >= 0

RECURSIVE SelectKeys(_, _)
SelectKeys(s, wantIndex) ==
    IF s = <<>> THEN <<>>
    ELSE IF IsArrayIndex(Head(s)) = wantIndex
         THEN <<Head(s)>> \o SelectKeys(Tail(s), wantIndex)
         ELSE SelectKeys(Tail(s), wantIndex)

RECURSIVE InsertByIndex(_, _)
InsertByIndex(k, s) ==
    IF s = <<>> THEN <<k>>
    ELSE IF ArrayIndex(k) < ArrayIndex(Head(s)) THEN <<k>> \o s
         ELSE <<Head(s)>> \o InsertByIndex(k, Tail(s))

RECURSIVE SortByIndex(_)
SortByIndex(s) ==
    IF s = <<>> THEN <<>> ELSE InsertByIndex(Head(s), SortByIndex(Tail(s)))

\* own keys in property order: array indices ascending, then the other keys
\* in creation order
OwnKeys(obj) ==
    SortByIndex(SelectKeys(obj.order, TRUE)) \o SelectKeys(obj.order, FALSE)

\* Object.values(obj)
ObjectValues(obj) ==
    LET ks == OwnKeys(obj) IN [i \in DOMAIN ks |-> obj.props[ks[i]]]

-----------------------------------------------------------------------------
(* The balance computation (the `balances` memo)                           *)

\* the accumulator while the callbacks run: the object, and whether a
\* property of undefined was accessed (TypeError)
Running(obj) == [obj |-> obj, threw |-> FALSE]

\* obj[k].balance += d
AddBalance(acc, k, d) ==
    IF acc.threw THEN acc
    ELSE IF HasOwn(acc.obj, k)
         THEN [acc EXCEPT !.obj.props[k].balance = Plus(@, d)]
         ELSE [acc EXCEPT !.threw = TRUE]

\* mutation: the accumulators start at 0.01
RECURSIVE InitAccumulatorsOffset(_, _)
InitAccumulatorsOffset(obj, mems) ==
    IF mems = <<>> THEN obj
    ELSE InitAccumulatorsOffset(
             SetProp(obj, Head(mems).id,
                     [id |-> Head(mems).id, name |-> Head(mems).name,
                      balance |-> Cent]),
             Tail(mems))

\* mutation: no early return for a group without members
NoMembersNever(mems) == FALSE

\* !group.members || group.members.length === 0, line 1077
NoMembers(mems) == Len(mems) = 0

\* memberBalances[member.id] = { id, name, balance: 0 }, for each member
RECURSIVE InitAccumulators(_, _)
InitAccumulators(obj, mems) ==
    IF mems = <<>> THEN obj
    ELSE InitAccumulators(
             SetProp(obj, Head(mems).id,
                     [id |-> Head(mems).id, name |-> Head(mems).name,
                      balance |-> 0]),
             Tail(mems))

\* mutation: the payer is credited without the test
PayerKnownAlways(obj, e) == TRUE

\* if (memberBalances[expense.paidBy])
PayerKnown(obj, e) == HasOwn(obj, e.paidBy)

\* mutation: the split entry is applied without the test
SplitKnownAlways(obj, split) == TRUE

\* if (memberBalances[split.memberId])
SplitKnown(obj, split) == HasOwn(obj, split.memberId)

\* mutation: the split list is used whenever the type is unequal
UsesSplitsUnchecked(e) == e.splitType = "unequal"

\* expense.splitType === 'unequal' && expense.splits?.length > 0
UsesSplits(e) ==
    e.splitType = "unequal" /\ e.hasSplits /\ Len(e.splits) > 0

\* (split.amount || 0)
OrZero(x) == IF x = 0 THEN 0 ELSE x

Credit(acc, e) ==
    IF PayerKnown(acc.obj, e) THEN AddBalance(acc, e.paidBy, e.amount)
    ELSE acc

\* mutation: only the first split entry is applied (find, not forEach)
ApplySplitsFirstOnly(acc, splits) ==
    IF splits = <<>> THEN acc
    ELSE IF HasOwn(acc.obj, Head(splits).memberId)
         THEN AddBalance(acc, Head(splits).memberId,
                         0 - Head(splits).amount)
         ELSE acc

\* expense.splits.forEach(split => ...), lines 1085-1089
RECURSIVE ApplySplits(_, _)
ApplySplits(acc, splits) ==
    IF splits = <<>> THEN acc
    ELSE ApplySplits(
             IF SplitKnown(acc.obj, Head(splits))
             THEN AddBalance(acc, Head(splits).memberId,
                             0 - OrZero(Head(splits).amount))
             ELSE acc,
             Tail(splits))

\* mutation: the share cut to whole 0.01s
SharePerMemberRounded(e, mems) ==
    ((e.amount \div Len(mems)) \div Cent) * Cent

\* expense.amount / group.members.length
SharePerMember(e, mems) == e.amount \div Len(mems)

\* mutation: the first member is left out of the equal split
RECURSIVE SharesFrom(_, _, _)
SharesFrom(acc, mems, share) ==
    IF mems = <<>> THEN acc
    ELSE SharesFrom(AddBalance(acc, Head(mems).id, 0 - share),
                    Tail(mems), share)

ApplySharesFromSecond(acc, mems, share) ==
    SharesFrom(acc, Tail(mems), share)

\* group.members.forEach(member => ...), lines 1092-1094
RECURSIVE ApplyShares(_, _, _)
ApplyShares(acc, mems, share) ==
    IF mems = <<>> THEN acc
    ELSE ApplyShares(AddBalance(acc, Head(mems).id, 0 - share),
                     Tail(mems), share)

\* the body of (group.expenses || []).forEach(expense => ...)
ApplyExpense(acc, mems, e) ==
    LET credited == Credit(acc, e) IN
    IF UsesSplits(e) THEN ApplySplits(credited, e.splits)
    ELSE ApplyShares(credited, mems, SharePerMember(e, mems))

\* the whole computation, as a function of its inputs
RECURSIVE ApplyAll(_, _, _)
ApplyAll(acc, mems, exps) ==
    IF exps = <<>> THEN acc
    ELSE ApplyAll(ApplyExpense(acc, mems, Head(exps)), mems, Tail(exps))

ComputeBalances(mems, exps) ==
    IF NoMembers(mems) THEN <<>>
    ELSE ObjectValues(
             ApplyAll(Running(InitAccumulators(EmptyObject, mems)),
                      mems, exps).obj)

(* what the claims say about the expenses handled so far *)

KnownSplitTotal(mems, e) ==
    SumSeq([i \in DOMAIN e.splits |->
               IF e.splits[i].memberId \in MemberIds(mems)
               THEN e.splits[i].amount ELSE 0])

SplitTotal(e) == SumSeq([i \in DOMAIN e.splits |-> e.splits[i].amount])

\* payer is a current member; Equal split, or Unequal split whose entries
\* all name current members and whose amounts sum to the expense amount
ValidExpense(mems, e) ==
    /\ e.paidBy \in MemberIds(mems)
    /\ \/ e.splitType = "equal"
       \/ /\ e.splitType = "unequal"
          /\ \A i \in DOMAIN e.splits : e.splits[i].memberId \in MemberIds(mems)
          /\ SplitTotal(e) = e.amount

\* an Unequal expense that holds a non-empty split list
DividedBySplits(e) ==
    e.splitType = "unequal" /\ e.hasSplits /\ e.splits # <<>>

\* an expense divided by its split list has entries for current members
\* that total its amount
CoveredExpense(mems, e) ==
    DividedBySplits(e) => KnownSplitTotal(mems, e) = e.amount

(* the steps *)

\* lines 1072-1077: the accumulators, and the early return for no members
InitBalances ==
    /\ pc = "start"
    /\ memberBalances' = InitAccumulators(EmptyObject, members)
    /\ IF NoMembers(members)
       THEN balances' = <<>> /\ pc' = "balanced"
       ELSE balances' = balances /\ pc' = "loop"
    /\ UNCHANGED <<members, expenses, processed, debtors, creditors,
                   settlements, earlier, appVars>>

\* one call of the forEach callback, lines 1079-1096
ProcessExpense(e) ==
    /\ pc = "loop"
    /\ LET out == ApplyExpense(Running(memberBalances), members, e) IN
       IF out.threw
       THEN pc' = "error" /\ UNCHANGED memberBalances
       ELSE pc' = "loop" /\ memberBalances' = out.obj
    /\ processed' = processed + 1
    /\ UNCHANGED <<members, expenses, balances, debtors, creditors,
                   settlements, earlier, appVars>>

\* line 1098
ReturnBalances ==
    /\ pc = "loop"
    /\ balances' = ObjectValues(memberBalances)
    /\ pc' = "balanced"
    /\ UNCHANGED <<members, expenses, processed, memberBalances,
                   debtors, creditors, settlements, earlier, appVars>>

-----------------------------------------------------------------------------
(* calculateSettlements                                                    *)

\* the elements of the array passed in, each with its identity: ref is the
\* position of the object in that array, and 0 for an object the call made
Objects(bals) ==
    [i \in DOMAIN bals |->
        [id |-> bals[i].id, name |-> bals[i].name,
         balance |-> bals[i].balance, ref |-> i]]

\* mutation: the working lists hold the objects passed in (no map)
SameObject(m) == m

\* m => ({ ...m, balance: m.balance }): a new object with the same fields
Copy(m) == [m EXCEPT !.ref = 0]

\* .map(m => ...)
MapCopy(s) == [i \in DOMAIN s |-> Copy(s[i])]

\* an assignment to m.balance, as the array passed in shows it
Write(bals, m) ==
    IF m.ref = 0 THEN bals ELSE [bals EXCEPT ![m.ref].balance = m.balance]

\* mutation: zero balances pass the filters (<= 0, >= 0)
RECURSIVE FilterInclusive(_, _)
FilterInclusive(s, negative) ==
    IF s = <<>> THEN <<>>
    ELSE IF (negative /\ Head(s).balance <= 0)
            \/ (~negative /\ Head(s).balance >= 0)
         THEN <<Head(s)>> \o FilterInclusive(Tail(s), negative)
         ELSE FilterInclusive(Tail(s), negative)

\* balances.filter(m => m.balance < 0), balances.filter(m => m.balance > 0)
RECURSIVE Filter(_, _)
Filter(s, negative) ==
    IF s = <<>> THEN <<>>
    ELSE IF (negative /\ Head(s).balance < 0)
            \/ (~negative /\ Head(s).balance > 0)
         THEN <<Head(s)>> \o Filter(Tail(s), negative)
         ELSE Filter(Tail(s), negative)

\* comparator (a, b) => a.balance - b.balance, or b.balance - a.balance
Compare(a, b, descending) ==
    IF descending THEN b.balance - a.balance ELSE a.balance - b.balance

\* x placed behind every element it does not sort before (the sort is stable)
RECURSIVE InsertSorted(_, _, _)
InsertSorted(x, s, descending) ==
    IF s = <<>> THEN <<x>>
    ELSE IF Compare(x, Head(s), descending) < 0 THEN <<x>> \o s
         ELSE <<Head(s)>> \o InsertSorted(x, Tail(s), descending)

RECURSIVE Sort(_, _)
Sort(s, descending) ==
    IF s = <<>> THEN <<>>
    ELSE InsertSorted(s[Len(s)], Sort(SubSeq(s, 1, Len(s) - 1), descending),
                      descending)

\* line 66
InitialDebtors(bals) == Sort(MapCopy(Filter(Objects(bals), TRUE)), FALSE)

\* line 67
InitialCreditors(bals) ==
    Sort(MapCopy(Filter(Objects(bals), FALSE)), TRUE)

\* mutation: the loop runs while either list holds a member
LoopConditionEither(ds, cs) == Len(ds) > 0 \/ Len(cs) > 0

\* the while condition, line 70
LoopCondition(ds, cs) == Len(ds) > 0 /\ Len(cs) > 0

\* mutation: the whole credit of the creditor is transferred
TransferAmountCredit(debtor, creditor) == creditor.balance

\* line 73
TransferAmount(debtor, creditor) == Min(0 - debtor.balance, creditor.balance)

\* mutation: nobody is ever removed
SettledNever(m) == FALSE

\* lines 84 and 85
Settled(m) == Abs(m.balance) < Tolerance

\* mutation: from and to exchanged
EntryReversed(debtor, creditor, amount) ==
    [from |-> [id |-> creditor.id, name |-> creditor.name],
     to |-> [id |-> debtor.id, name |-> debtor.name],
     amount |-> amount]

\* lines 75-79
Entry(debtor, creditor, amount) ==
    [from |-> [id |-> debtor.id, name |-> debtor.name],
     to |-> [id |-> creditor.id, name |-> creditor.name],
     amount |-> amount]

\* mutation: the entries are kept in an array that outlives the call
KeptSettlements == settlements

\* const settlements = [], line 68
NewSettlements == <<>>

\* lines 66-68
StartSettlements ==
    /\ pc = "balanced"
    /\ debtors' = InitialDebtors(balances)
    /\ creditors' = InitialCreditors(balances)
    /\ settlements' = NewSettlements
    /\ pc' = "settling"
    /\ UNCHANGED <<members, expenses, processed, memberBalances,
                   balances, earlier, appVars>>

\* one iteration of the while loop, lines 70-86
SettleStep ==
    /\ pc = "settling"
    /\ LoopCondition(debtors, creditors)
    /\ IF debtors = <<>> \/ creditors = <<>>
       THEN \* debtors[0] or creditors[0] is undefined
            /\ pc' = "error"
            /\ UNCHANGED <<balances, debtors, creditors, settlements>>
       ELSE LET amount == TransferAmount(debtors[1], creditors[1])
                debtor == [debtors[1] EXCEPT !.balance = Plus(@, amount)]
                creditor ==
                    [creditors[1] EXCEPT !.balance = Plus(@, 0 - amount)]
            IN  /\ settlements' =
                       Append(settlements,
                              Entry(debtors[1], creditors[1], amount))
                /\ debtors' = IF Settled(debtor) THEN Tail(debtors)
                              ELSE <<debtor>> \o Tail(debtors)
                /\ creditors' = IF Settled(creditor) THEN Tail(creditors)
                                ELSE <<creditor>> \o Tail(creditors)
                /\ balances' = Write(Write(balances, debtor), creditor)
                /\ pc' = "settling"
    /\ UNCHANGED <<members, expenses, processed, memberBalances, earlier,
                   appVars>>

\* line 87
ReturnSettlements ==
    /\ pc = "settling"
    /\ ~LoopCondition(debtors, creditors)
    /\ pc' = "settled"
    /\ UNCHANGED <<members, expenses, processed, memberBalances,
                   balances, debtors, creditors, settlements, earlier,
                   appVars>>

\* the memo is evaluated again for the same group (a later render), lines
\* 1071-1099: processed is the forEach starting over
BalancesAgain ==
    /\ pc = "balanced"
    /\ Len(earlier) < MaxCalls - 1
    /\ earlier' = Append(earlier, [of |-> "balances", result |-> balances])
    /\ processed' = 0
    /\ pc' = "start"
    /\ UNCHANGED <<members, expenses, memberBalances, balances, debtors,
                   creditors, settlements, appVars>>

\* calculateSettlements is called again with the same array, lines 1101-1104
SettlementsAgain ==
    /\ pc = "settled"
    /\ Len(earlier) < MaxCalls - 1
    /\ earlier' =
           Append(earlier, [of |-> "settlements", result |-> settlements])
    /\ pc' = "balanced"
    /\ UNCHANGED <<members, expenses, processed, memberBalances, balances,
                   debtors, creditors, settlements, appVars>>

-----------------------------------------------------------------------------
(* The application: App state, localStorage, the expense form              *)

\* null, where the program holds either null or an object
Null == [null |-> TRUE]

\* no timeout pending
NoTimer == [pending |-> FALSE, user |-> Null, groups |-> <<>>]

\* `called` after op ran: the last two App handlers and timeouts
Called(op) ==
    IF Len(called) < 2 THEN Append(called, op) ELSE <<called[2], op>>

\* Date.now() at the moment an id is made; two ids made within one
\* millisecond get the same value
Times == 1..2

\* `group_${Date.now()}`, lines 528, 622 and 691
GroupId(t) == IF t = 1 THEN "group_1" ELSE "group_2"

\* `local_user_${Date.now()}`, line 610
UserId(t) == IF t = 1 THEN "local_user_1" ELSE "local_user_2"

\* `exp_${Date.now()}`, line 712
ExpenseId(t) == IF t = 1 THEN "exp_1" ELSE "exp_2"

\* the user object handleLogin makes, lines 609-614
NewUser(t) == [id |-> UserId(t), name |-> "Demo"]

\* a group object: lines 689-697, and what an invite carries (line 992)
Group(id, name, mems, exps, createdAt) ==
    [id |-> id, name |-> name, members |-> mems, expenses |-> exps,
     createdAt |-> createdAt]

\* ---- JSON and localStorage, lines 8-42 ----

\* a Date object as JSON.stringify writes it: its ISO string
DateToJSON(d) == IF d = "Date" THEN "iso" ELSE d

\* new Date(text), lines 18-19 and 23-24
NewDate(d) == IF d = "iso" THEN "Date" ELSE d

\* JSON.stringify(data), line 38: Date objects become ISO strings
Stringify(data) ==
    [user |-> data.user,
     groups |->
        [i \in DOMAIN data.groups |->
            [data.groups[i] EXCEPT
                !.createdAt = DateToJSON(@),
                !.expenses =
                    [j \in DOMAIN @ |-> [@[j] EXCEPT !.date = DateToJSON(@)]]]]]

\* what localStorage holds under STORAGE_KEY
NoItem == [kind |-> "none"]
Unparsable == [kind |-> "unparsable"]
Item(json) == [kind |-> "json", json |-> json]

\* loadDataFromStorage, lines 8-34
loadDataFromStorage(item) ==
    IF item.kind = "json"
    THEN [user |-> item.json.user,
          groups |->
             [i \in DOMAIN item.json.groups |->
                 [item.json.groups[i] EXCEPT
                     !.createdAt = NewDate(@),
                     !.expenses =
                         [j \in DOMAIN @ |-> [@[j] EXCEPT !.date = NewDate(@)]]]]]
    ELSE [user |-> Null, groups |-> <<>>]

\* saveDataToStorage, lines 36-42: the item after the call; written is
\* false when setItem threw, which the function catches
saveDataToStorage(item, data, written) ==
    IF written THEN Item(Stringify(data)) ELSE item

\* ---- invites ----

NoJoinData == ""

\* the values of the joinData parameter the model follows
JoinDatas == {NoJoinData, "garbage", "tripInvite", "homeInvite"}

InviteMembers == <<Member("1"), Member("2")>>

\* JSON.parse(atob(data)), lines 526-527 and 619-620: the decoded object,
\* or a throw
Decode(data) ==
    CASE data = "tripInvite" ->
             [ok |-> TRUE,
              value |-> Group("group_1", "Trip", InviteMembers, <<>>, "iso")]
      [] data = "homeInvite" ->
             [ok |-> TRUE,
              value |-> Group("group_9", "Home", InviteMembers, <<>>, "iso")]
      [] OTHER -> [ok |-> FALSE, value |-> Null]

\* a test that finds no group of the name
SomeNamedNever(currentGroups, name) == FALSE

\* currentGroups.some(g => g.name === newGroup.name), line 530
SomeNamed(currentGroups, name) ==
    \E i \in DOMAIN currentGroups : currentGroups[i].name = name

\* processInvite, lines 524-543: the list it returns
processInvite(data, currentGroups, t) ==
    LET decoded == Decode(data)
        newGroup == [decoded.value EXCEPT !.id = GroupId(t)]
    IN  IF ~decoded.ok
        THEN currentGroups
        ELSE IF SomeNamed(currentGroups, newGroup.name)
             THEN currentGroups
             ELSE Append(currentGroups, newGroup)

\* ---- the save effect, lines 563-579 ----

\* a timeout that an earlier pending timeout keeps from being set
SnapshotKeepsPending(u, g) ==
    IF timer.pending THEN timer
    ELSE [pending |-> TRUE, user |-> u, groups |-> g]

\* the timeout the effect sets: its callback closes over user and groups
Snapshot(u, g) == [pending |-> TRUE, user |-> u, groups |-> g]

\* syncStatus after a save whose failure reaches the callback's catch
StatusAfterSaveUncaught(written) == IF written THEN "synced" ELSE "error"

\* syncStatus after the callback's try block, lines 567-574
StatusAfterSave(written) == "synced"

\* the effect after a render in which user, groups or isDataLoaded changed:
\* the cleanup clears the earlier timeout, the body sets a new one
SaveEffect ==
    IF isDataLoaded'
    THEN /\ syncStatus' = "saving"
         /\ timer' = Snapshot(user', groups')
    ELSE UNCHANGED <<syncStatus, timer>>

\* the timeout fires, lines 566-575
TimerFires ==
    /\ timer.pending
    /\ \E written \in BOOLEAN :
          /\ storage' = saveDataToStorage(
                            storage,
                            [user |-> timer.user, groups |-> timer.groups],
                            written)
          /\ syncStatus' = StatusAfterSave(written)
    /\ timer' = NoTimer
    /\ called' = Called("save")
    /\ UNCHANGED <<user, groups, currentView, selectedGroupId, isDataLoaded,
                   pendingInvite, joinData, newExpense, error, ledgerVars>>

\* ---- App handlers ----

\* the load effect, lines 505-560
LoadData ==
    /\ ~isDataLoaded
    /\ LET stored == loadDataFromStorage(storage)
       IN  IF stored.user # Null
           THEN /\ user' = stored.user
                /\ \E t \in Times :
                      groups' = IF joinData # NoJoinData
                                THEN processInvite(joinData, stored.groups, t)
                                ELSE stored.groups
                /\ joinData' = NoJoinData
                /\ UNCHANGED pendingInvite
           ELSE /\ pendingInvite' = joinData
                /\ UNCHANGED <<user, groups, joinData>>
    /\ isDataLoaded' = TRUE
    /\ SaveEffect
    /\ called' = Called("load")
    /\ UNCHANGED <<currentView, selectedGroupId, storage, newExpense, error,
                   ledgerVars>>

\* initialGroups of handleLogin, lines 616-633
InitialGroups(invite, t) ==
    IF invite = NoJoinData
    THEN <<>>
    ELSE LET decoded == Decode(invite)
         IN  IF decoded.ok
             THEN <<[decoded.value EXCEPT !.id = GroupId(t)]>>
             ELSE <<>>

\* handleLogin, lines 608-636; the login modal is shown to a visitor who
\* is not logged in
handleLogin ==
    /\ isDataLoaded
    /\ user = Null
    /\ \E t \in Times : user' = NewUser(t)
    /\ \E t \in Times : groups' = InitialGroups(pendingInvite, t)
    /\ pendingInvite' = NoJoinData
    /\ joinData' = IF pendingInvite # NoJoinData THEN NoJoinData ELSE joinData
    /\ isDataLoaded' = isDataLoaded
    /\ SaveEffect
    /\ called' = Called("handleLogin")
    /\ UNCHANGED <<currentView, selectedGroupId, storage, newExpense, error,
                   ledgerVars>>

\* handleNavigate, lines 674-677
handleNavigate(view, groupId) ==
    /\ currentView' = view
    /\ selectedGroupId' = groupId

\* handleLogout, lines 638-642; the button is shown to a logged-in user
handleLogout ==
    /\ isDataLoaded
    /\ user # Null
    /\ user' = Null
    /\ groups' = <<>>
    /\ handleNavigate("dashboard", "")
    /\ isDataLoaded' = isDataLoaded
    /\ SaveEffect
    /\ called' = Called("handleLogout")
    /\ UNCHANGED <<pendingInvite, storage, joinData, newExpense, error,
                   ledgerVars>>

\* an updater that replaces the expenses of the group by the new one
WithExpenseOnly(prevGroups, groupId, newExp, t) ==
    [i \in DOMAIN prevGroups |->
        IF prevGroups[i].id = groupId
        THEN [prevGroups[i] EXCEPT
                 !.expenses =
                     <<[description |-> newExp.description,
                        amount |-> newExp.amount, paidBy |-> newExp.paidBy,
                        splitType |-> newExp.splitType,
                        splits |-> newExp.splits, id |-> ExpenseId(t),
                        date |-> "iso"]>>]
        ELSE prevGroups[i]]

\* the expense handleAddExpense stores, line 712
Stored(newExp, t) ==
    [description |-> newExp.description, amount |-> newExp.amount,
     paidBy |-> newExp.paidBy, splitType |-> newExp.splitType,
     splits |-> newExp.splits, id |-> ExpenseId(t), date |-> "iso"]

\* the updater handleAddExpense passes to setGroups, lines 708-717
WithExpense(prevGroups, groupId, newExp, t) ==
    [i \in DOMAIN prevGroups |->
        IF prevGroups[i].id = groupId
        THEN [prevGroups[i] EXCEPT
                 !.expenses = Append(@, Stored(newExp, t))]
        ELSE prevGroups[i]]

\* handleAddExpense(groupId, newExp), lines 705-720: what it does to the
\* App state
AddExpense(groupId, newExp, t) ==
    IF user = Null \/ groupId = ""
    THEN UNCHANGED <<groups, syncStatus, timer>>
    ELSE /\ groups' = WithExpense(groups, groupId, newExp, t)
         /\ SaveEffect

\* the number of expenses the first n groups hold
RECURSIVE TotalExpenses(_, _)
TotalExpenses(gs, n) ==
    IF n = 0 THEN 0
    ELSE TotalExpenses(gs, n - 1) + Len(gs[n].expenses)

\* the expenses a caller of handleAddExpense passes in the model
CallerExpenses ==
    {[description |-> "Taxi", amount |-> Lira(30), paidBy |-> p,
      splitType |-> "equal", splits |-> <<>>] : p \in {"2"}}

\* the group ids a caller of handleAddExpense passes in the model
CallerGroupIds == {"", "group_1", "group_2", "group_3"}

\* a call of handleAddExpense, lines 705-720
handleAddExpense(groupId, newExp, t) ==
    /\ isDataLoaded
    /\ TotalExpenses(groups, Len(groups)) < MaxExpenses
    /\ user' = user
    /\ isDataLoaded' = isDataLoaded
    /\ AddExpense(groupId, newExp, t)
    /\ called' = Called("handleAddExpense")
    /\ UNCHANGED <<currentView, selectedGroupId, pendingInvite, storage,
                   joinData, newExpense, error, ledgerVars>>

\* ---- the expense form of GroupDetail ----

\* a number that parseFloat returns: NaN, or a value in ticks
NaN == [nan |-> TRUE, value |-> 0]

Number(v) == [nan |-> FALSE, value |-> v]

\* what the amount field and a split field hold in the model
AmountTexts == {"", "abc", "0", "-5", "0.01", "0.02", "100"}

SplitTexts == {"", "30", "70"}

\* parseFloat(text), lines 1141-1152 and 1167
parseFloat(text) ==
    CASE text = "0" -> Number(0)
      [] text = "-5" -> Number(0 - Lira(5))
      [] text = "0.01" -> Number(Cent)
      [] text = "0.02" -> Number(2 * Cent)
      [] text = "30" -> Number(Lira(30))
      [] text = "70" -> Number(Lira(70))
      [] text = "100" -> Number(Lira(100))
      [] OTHER -> NaN

\* !amount, line 1153: NaN and 0 are falsy
Falsy(n) == n.nan \/ n.value = 0

\* parseFloat(text) || 0, lines 1142, 1146 and 1167
parsedOrZero(text) ==
    IF Falsy(parseFloat(text)) THEN 0 ELSE parseFloat(text).value

\* splits.reduce((sum, split) => sum + ..., 0), line 1142
RECURSIVE reduceSplits(_, _)
reduceSplits(splits, n) ==
    IF n = 0 THEN 0
    ELSE Plus(reduceSplits(splits, n - 1), parsedOrZero(splits[n].amount))

\* customSplitTotal, lines 1140-1143
customSplitTotal(form) ==
    IF form.splitType # "unequal" THEN 0
    ELSE reduceSplits(form.splits, Len(form.splits))

\* remainingToSplit, lines 1145-1148
remainingToSplit(form) ==
    Plus(parsedOrZero(form.amount), 0 - customSplitTotal(form))

\* the literal 0.01 of line 1157
SplitTolerance == Cent

\* the first check of handleSubmit, line 1153
FieldsMissing(form) ==
    \/ form.description = ""
    \/ Falsy(parseFloat(form.amount))
    \/ parseFloat(form.amount).value <= 0
    \/ form.paidBy = ""

\* a second check that lets every split through
SplitsOffNever(form) == FALSE

\* the second check of handleSubmit, line 1157
SplitsOff(form) ==
    /\ form.splitType = "unequal"
    /\ Abs(remainingToSplit(form)) > SplitTolerance

\* the form as useState makes it and as handleSubmit and the effect of
\* lines 980-989 reset it
EmptyForm(currentUserId) ==
    [description |-> "", amount |-> "", paidBy |-> currentUserId,
     splitType |-> "equal", splits |-> <<>>]

\* expenseToAdd, lines 1161-1170
expenseToAdd(form) ==
    [description |-> form.description,
     amount |-> parseFloat(form.amount).value,
     paidBy |-> form.paidBy,
     splitType |-> form.splitType,
     splits |-> IF form.splitType = "unequal"
                THEN [i \in DOMAIN form.splits |->
                         [form.splits[i] EXCEPT !.amount = parsedOrZero(@)]]
                ELSE <<>>]

\* the group GroupDetail shows: selectedGroup, lines 722-724
SelectedGroup ==
    groups[CHOOSE i \in DOMAIN groups : groups[i].id = selectedGroupId]

FormOpen ==
    /\ isDataLoaded
    /\ user # Null
    /\ currentView = "groupDetail"
    /\ \E i \in DOMAIN groups : groups[i].id = selectedGroupId

FormFrame ==
    UNCHANGED <<user, groups, currentView, selectedGroupId, isDataLoaded,
                pendingInvite, syncStatus, timer, storage, joinData, error,
                called, ledgerVars>>

\* newSplits of handleInputChange, lines 1109-1111
NewSplits(value, mems) ==
    IF value = "unequal"
    THEN [i \in DOMAIN mems |-> [memberId |-> mems[i].id, amount |-> ""]]
    ELSE <<>>

\* handleInputChange, lines 1106-1116, for each field of the form
handleInputChange ==
    /\ FormOpen
    /\ \/ \E value \in {"", "Dinner"} :
             newExpense' = [newExpense EXCEPT !.description = value]
       \/ \E value \in AmountTexts :
             newExpense' = [newExpense EXCEPT !.amount = value]
       \/ \E value \in {""} \cup {SelectedGroup.members[i].id :
                                     i \in DOMAIN SelectedGroup.members} :
             newExpense' = [newExpense EXCEPT !.paidBy = value]
       \/ \E value \in {"equal", "unequal"} :
             newExpense' =
                 [newExpense EXCEPT
                     !.splitType = value,
                     !.splits = NewSplits(value, SelectedGroup.members)]
    /\ FormFrame

\* handleCustomSplitChange, lines 1118-1125
handleCustomSplitChange ==
    /\ FormOpen
    /\ newExpense.splitType = "unequal"
    /\ \E m \in DOMAIN SelectedGroup.members : \E value \in SplitTexts :
          newExpense' =
              [newExpense EXCEPT
                  !.splits =
                      [i \in DOMAIN @ |->
                          IF @[i].memberId = SelectedGroup.members[m].id
                          THEN [@[i] EXCEPT !.amount = value]
                          ELSE @[i]]]
    /\ FormFrame

\* handleSubmit, lines 1150-1175
handleSubmit ==
    /\ FormOpen
    /\ TotalExpenses(groups, Len(groups)) < MaxSubmitted
    /\ user' = user
    /\ isDataLoaded' = isDataLoaded
    /\ IF FieldsMissing(newExpense)
       THEN /\ error' = "fields"
            /\ UNCHANGED <<groups, syncStatus, timer, newExpense>>
       ELSE IF SplitsOff(newExpense)
            THEN /\ error' = "splits"
                 /\ UNCHANGED <<groups, syncStatus, timer, newExpense>>
            ELSE /\ \E t \in Times :
                       AddExpense(SelectedGroup.id, expenseToAdd(newExpense), t)
                 /\ newExpense' = EmptyForm(user.id)
                 /\ error' = ""
    /\ UNCHANGED <<currentView, selectedGroupId, pendingInvite, storage,
                   joinData, called, ledgerVars>>

\* the App and the form as useState makes them, lines 483-497 and 975-976,
\* before the load effect; nothing stored, no invite in the URL
Unmounted ==
    /\ user = Null
    /\ groups = <<>>
    /\ currentView = "dashboard"
    /\ selectedGroupId = ""
    /\ isDataLoaded = FALSE
    /\ pendingInvite = NoJoinData
    /\ syncStatus = "synced"
    /\ timer = NoTimer
    /\ storage = NoItem
    /\ joinData = NoJoinData
    /\ newExpense = EmptyForm("")
    /\ error = ""
    /\ called = <<>>

-----------------------------------------------------------------------------
(* Specifications *)

Idle ==
    /\ processed = 0
    /\ memberBalances = EmptyObject
    /\ debtors = <<>>
    /\ creditors = <<>>
    /\ settlements = <<>>
    /\ earlier = <<>>
    /\ Unmounted

\* the forEach over group.expenses, line 1079
NextExpense ==
    /\ processed < Len(expenses)
    /\ ProcessExpense(expenses[processed + 1])

ReturnAfterLast ==
    /\ processed = Len(expenses)
    /\ ReturnBalances

\* Spec: the balances of a group of up to MaxMembers members whose expense
\* list holds up to MaxExpenses expenses entered through the form.
Init ==
    /\ \E ids \in IdLists : members = [i \in DOMAIN ids |-> Member(ids[i])]
    /\ \E n \in 0..MaxExpenses : expenses \in [1..n -> FormExpenses(members)]
    /\ balances = <<>>
    /\ Idle
    /\ pc = "start"

Next ==
    \/ InitBalances
    \/ NextExpense
    \/ ReturnAfterLast

Spec == Init /\ [][Next]_vars

\* SpecSingle: the balances of a group that holds at most one expense, of
\* any stored shape, and the settlement of those balances
\* (GroupDetail.settlementSuggestions).
InitSingle ==
    /\ \E ids \in IdLists : members = [i \in DOMAIN ids |-> Member(ids[i])]
    /\ \/ expenses = <<>>
       \/ \E e \in Expenses : expenses = <<e>>
    /\ balances = <<>>
    /\ Idle
    /\ pc = "start"

NextSingle ==
    \/ InitBalances
    \/ NextExpense
    \/ ReturnAfterLast
    \/ StartSettlements
    \/ SettleStep
    \/ ReturnSettlements

SpecSingle == InitSingle /\ [][NextSingle]_vars

\* SpecPlan: calculateSettlements on any list of up to MaxBalances balances.
PlanAmounts ==
    {0 - (2 * Cent - 2), 0 - Cent, 0 - 1, 0, 1, Cent - 1, 2 * Cent - 1}

PlanIds == <<"1", "2", "a", "b", "c", "d", "e", "f">>

InitPlan ==
    /\ members = <<>>
    /\ expenses = <<>>
    /\ Idle
    /\ \E n \in 0..MaxBalances : \E f \in [1..n -> PlanAmounts] :
           balances = [i \in 1..n |->
                          [id |-> PlanIds[i], name |-> NameOf(PlanIds[i]),
                           balance |-> f[i]]]
    /\ pc = "balanced"

NextPlan ==
    \/ StartSettlements
    \/ SettleStep
    \/ ReturnSettlements

SpecPlan == InitPlan /\ [][NextPlan]_vars

\* the steps of the while loop: an iteration, or the exit
LoopStep ==
    \/ SettleStep
    \/ ReturnSettlements

\* SpecPlanFair: SpecPlan for a call that is not abandoned: the loop is
\* synchronous code, so a step of it that can be taken is taken.
SpecPlanFair == InitPlan /\ [][NextPlan]_vars /\ WF_vars(LoopStep)

\* SpecOrder: the balances of a group whose expenses are split equally and
\* have amounts of any size, up to sums that a double does not hold exactly.
OrderAmounts == {Cent, 3 * Cent, Cent * Pow2(Precision)}

OrderExpenses ==
    [paidBy : IdPool, amount : OrderAmounts, splitType : {"equal"},
     hasSplits : {TRUE}, splits : {<<>>}]

InitOrder ==
    /\ \E ids \in IdLists : members = [i \in DOMAIN ids |-> Member(ids[i])]
    /\ \E n \in 0..MaxExpenses : expenses \in [1..n -> OrderExpenses]
    /\ balances = <<>>
    /\ Idle
    /\ pc = "start"

SpecOrder == InitOrder /\ [][Next]_vars

\* SpecTwice: SpecSingle with up to MaxCalls calls of either computation on
\* the same group.
NextTwice ==
    \/ InitBalances
    \/ NextExpense
    \/ ReturnAfterLast
    \/ StartSettlements
    \/ SettleStep
    \/ ReturnSettlements
    \/ BalancesAgain
    \/ SettlementsAgain

SpecTwice == InitSingle /\ [][NextTwice]_vars

\* the ledger computations, not called
Unused ==
    /\ members = <<>>
    /\ expenses = <<>>
    /\ balances = <<>>
    /\ processed = 0
    /\ memberBalances = EmptyObject
    /\ debtors = <<>>
    /\ creditors = <<>>
    /\ settlements = <<>>
    /\ earlier = <<>>
    /\ pc = "start"

\* the groups the stored data is made of
StoredGroups ==
    {Group("group_1", "Trip", InviteMembers, <<>>, "iso"),
     Group("group_2", "Home", InviteMembers, <<>>, "iso"),
     Group("group_1", "Trip", InviteMembers,
           <<[description |-> "Taxi", amount |-> Lira(30), paidBy |-> "1",
              splitType |-> "equal", splits |-> <<>>, id |-> "exp_1",
              date |-> "iso"]>>,
           "iso")}

\* what localStorage holds when the App mounts
StoredItems ==
    {NoItem, Unparsable, Item([user |-> Null, groups |-> <<>>])}
    \cup {Item([user |-> NewUser(1), groups |-> gs]) :
             gs \in UNION {[1..n -> StoredGroups] : n \in 0..MaxGroups}}

\* SpecApp: the App from its mount on: the load effect, login, logout,
\* calls of handleAddExpense and the timeouts of the save effect.
InitApp ==
    /\ Unused
    /\ user = Null
    /\ groups = <<>>
    /\ currentView = "dashboard"
    /\ selectedGroupId = ""
    /\ isDataLoaded = FALSE
    /\ pendingInvite = NoJoinData
    /\ syncStatus = "synced"
    /\ timer = NoTimer
    /\ storage \in StoredItems
    /\ joinData \in JoinDatas
    /\ newExpense = EmptyForm("")
    /\ error = ""
    /\ called = <<>>

NextApp ==
    \/ LoadData
    \/ handleLogin
    \/ handleLogout
    \/ \E groupId \in CallerGroupIds : \E e \in CallerExpenses :
          \E t \in Times : handleAddExpense(groupId, e, t)
    \/ TimerFires

SpecApp == InitApp /\ [][NextApp]_vars

\* SpecAppFair: SpecApp in a browser that runs its timeouts: a timeout
\* that stays set fires.
SpecAppFair == InitApp /\ [][NextApp]_vars /\ WF_vars(TimerFires)

\* the group the form of SpecForm belongs to
FormGroup ==
    Group("group_1", "Trip", <<Member("1"), Member("2")>>, <<>>, "Date")

\* SpecForm: the expense form of GroupDetail, open on a group of the
\* logged-in user.
InitForm ==
    /\ Unused
    /\ user = Member("1")
    /\ groups = <<FormGroup>>
    /\ currentView = "groupDetail"
    /\ selectedGroupId = "group_1"
    /\ isDataLoaded = TRUE
    /\ pendingInvite = NoJoinData
    /\ syncStatus = "synced"
    /\ timer = NoTimer
    /\ storage = Item(Stringify([user |-> Member("1"), groups |-> <<FormGroup>>]))
    /\ joinData = NoJoinData
    /\ newExpense = EmptyForm("1")
    /\ error = ""
    /\ called = <<>>

NextForm ==
    \/ handleInputChange
    \/ handleCustomSplitChange
    \/ handleSubmit

SpecForm == InitForm /\ [][NextForm]_vars

-----------------------------------------------------------------------------
(* Properties *)

\* the balance computation has returned
Balanced == pc \in {"balanced", "settling", "settled"}

SumBalances == SumSeq([i \in DOMAIN balances |-> balances[i].balance])

PayerIsMember(e) == e.paidBy \in MemberIds(members)

\* what the split entries of e that name id add up to
OwnSplitTotal(e, id) ==
    SumSeq([i \in DOMAIN e.splits |->
               IF e.splits[i].memberId = id THEN e.splits[i].amount ELSE 0])

HasUnknownSplit(e) ==
    \E i \in DOMAIN e.splits : e.splits[i].memberId \notin MemberIds(members)

HasKnownSplit(e) ==
    \E i \in DOMAIN e.splits : e.splits[i].memberId \in MemberIds(members)

\* the group holds exactly one expense
SingleExpense == Len(expenses) = 1

\* C1: for a non-empty group and a list of valid expenses (payer a current
\* member; Equal, or Unequal with every entry naming a current member and
\* the entries summing to the amount), the computed balances sum to zero.
C1_ValidExpensesConserve ==
    (/\ Balanced
     /\ members # <<>>
     /\ \A i \in DOMAIN expenses : ValidExpense(members, expenses[i]))
    => SumBalances = 0

\* two valid expenses, one of them unequal, and somebody owes money
C1_Witness ==
    /\ pc = "balanced"
    /\ Len(expenses) = 2
    /\ \A i \in DOMAIN expenses : ValidExpense(members, expenses[i])
    /\ expenses[1].splitType = "equal"
    /\ expenses[2].splitType = "unequal"
    /\ \E i \in DOMAIN balances : balances[i].balance < 0

\* C2 as stated: whenever every expense's payer is a current member, the
\* computed balances sum to zero.
C2_PayerKnownConserves ==
    (/\ Balanced
     /\ \A i \in DOMAIN expenses : PayerIsMember(expenses[i]))
    => SumBalances = 0

\* C2 as amended: whenever every expense's payer is a current member and
\* every expense divided by its split list has entries for current members
\* that total its amount, the computed balances sum to zero.
C2_CoveredExpensesConserve ==
    (/\ Balanced
     /\ \A i \in DOMAIN expenses :
            /\ PayerIsMember(expenses[i])
            /\ CoveredExpense(members, expenses[i]))
    => SumBalances = 0

\* an unequal expense stored without a split list, paid by a member of a
\* group of several: it is divided equally
C2_Witness ==
    /\ pc = "balanced"
    /\ SingleExpense
    /\ expenses[1].splitType = "unequal"
    /\ ~expenses[1].hasSplits
    /\ PayerIsMember(expenses[1])
    /\ Len(members) >= 2
    /\ \E i \in DOMAIN balances : balances[i].balance < 0

\* what the emitted entries have id pay, and receive
Paid(id) ==
    SumSeq([i \in DOMAIN settlements |->
               IF settlements[i].from.id = id THEN settlements[i].amount
               ELSE 0])

Received(id) ==
    SumSeq([i \in DOMAIN settlements |->
               IF settlements[i].to.id = id THEN settlements[i].amount
               ELSE 0])

\* the i-th input balance once every emitted entry is applied to it
AfterSettlement(i) ==
    balances[i].balance + Paid(balances[i].id) - Received(balances[i].id)

NonZeroBalances ==
    Cardinality({i \in DOMAIN balances : balances[i].balance # 0})

\* C3: for input balances that sum to zero, applying every emitted entry
\* leaves every member's balance strictly within 0.01 of zero.
C3_SettlementsZeroBalances ==
    (pc = "settled" /\ SumBalances = 0)
    => \A i \in DOMAIN balances : Abs(AfterSettlement(i)) < Cent

\* C4 as stated: with n non-zero input balances, at most n - 1 entries are
\* emitted.
C4_EntriesBelowNonZero ==
    pc = "settled" => Len(settlements) <= NonZeroBalances - 1

\* C4 as amended: with n >= 1 non-zero input balances at most n - 1 entries
\* are emitted, and with none no entry is emitted.
C4_EntriesBound ==
    pc \in {"settling", "settled"}
    => IF NonZeroBalances >= 1
       THEN Len(settlements) <= NonZeroBalances - 1
       ELSE Len(settlements) = 0

\* the bound is met: four non-zero balances settled by three entries
C4_Witness ==
    /\ pc = "settled"
    /\ NonZeroBalances = 4
    /\ Len(settlements) = 3

TheExpense == expenses[1]

HasBalance(id) == \E i \in DOMAIN balances : balances[i].id = id

BalanceOf(id) ==
    balances[CHOOSE i \in DOMAIN balances : balances[i].id = id].balance

\* C5: one Equal expense of amount A paid by member P in a group of N >= 1
\* members gives P the balance A - A/N and every other member -A/N.
C5_EqualSplit ==
    (/\ Balanced
     /\ SingleExpense
     /\ TheExpense.splitType = "equal"
     /\ PayerIsMember(TheExpense)
     /\ Len(members) >= 1)
    => \A m \in DOMAIN members :
           /\ HasBalance(members[m].id)
           /\ Len(members) * BalanceOf(members[m].id)
              = (IF members[m].id = TheExpense.paidBy
                 THEN Len(members) * TheExpense.amount ELSE 0)
                - TheExpense.amount

\* an equal expense of 100 in a group of three
C5_Witness ==
    /\ pc = "balanced"
    /\ SingleExpense
    /\ TheExpense.splitType = "equal"
    /\ TheExpense.amount = Lira(100)
    /\ PayerIsMember(TheExpense)
    /\ Len(members) = 3
    /\ \E i \in DOMAIN balances : 3 * balances[i].balance = 0 - Lira(100)

\* C6: for one Unequal expense with a non-empty split list over current
\* members, each member's balance is the amount if the member paid, else 0,
\* minus the sum of that member's split amounts.
C6_UnequalSplit ==
    (/\ Balanced
     /\ SingleExpense
     /\ DividedBySplits(TheExpense)
     /\ ~HasUnknownSplit(TheExpense))
    => \A m \in DOMAIN members :
           /\ HasBalance(members[m].id)
           /\ BalanceOf(members[m].id)
              = (IF members[m].id = TheExpense.paidBy
                 THEN TheExpense.amount ELSE 0)
                - OwnSplitTotal(TheExpense, members[m].id)

\* amount 100 paid by "1" with splits "1": 30, "2": 70 gives 70 and -70
C6_Witness ==
    /\ pc = "balanced"
    /\ SingleExpense
    /\ TheExpense.paidBy = "1"
    /\ TheExpense.amount = Lira(100)
    /\ TheExpense.splitType = "unequal"
    /\ TheExpense.splits = <<[memberId |-> "1", amount |-> Lira(30)],
                             [memberId |-> "2", amount |-> Lira(70)]>>
    /\ HasBalance("1") /\ BalanceOf("1") = Lira(70)
    /\ HasBalance("2") /\ BalanceOf("2") = 0 - Lira(70)

\* what one expense takes from the members of a group
Subtracted(e) ==
    IF members = <<>> THEN 0
    ELSE IF DividedBySplits(e) THEN KnownSplitTotal(members, e)
    ELSE e.amount

\* C7 as stated: an expense whose payer is no current member credits
\* nobody and still subtracts its shares, so the balances sum to minus the
\* amount subtracted, which is not zero, and no error is produced.
C7_UnknownPayerNeverConserves ==
    (SingleExpense /\ ~PayerIsMember(TheExpense) /\ members # <<>>)
    => /\ pc # "error"
       /\ Balanced =>
              /\ \A i \in DOMAIN balances : balances[i].balance <= 0
              /\ SumBalances = 0 - Subtracted(TheExpense)
              /\ SumBalances # 0

\* C7 as amended: an expense whose payer is no current member credits
\* nobody and still subtracts its shares, so the balances sum to minus the
\* amount subtracted (not zero whenever something is subtracted), and no
\* error is produced.
C7_UnknownPayerNotCredited ==
    (SingleExpense /\ ~PayerIsMember(TheExpense))
    => /\ pc # "error"
       /\ Balanced =>
              /\ \A i \in DOMAIN balances : balances[i].balance <= 0
              /\ SumBalances = 0 - Subtracted(TheExpense)
              /\ Subtracted(TheExpense) > 0 => SumBalances # 0

\* an equal expense of a payer who left a group of two
C7_Witness ==
    /\ pc = "balanced"
    /\ SingleExpense
    /\ ~PayerIsMember(TheExpense)
    /\ TheExpense.splitType = "equal"
    /\ Len(members) = 2
    /\ SumBalances = 0 - TheExpense.amount

\* C8: a split entry of an Unequal expense that names no current member
\* changes no member's balance and adds no balance record; the other
\* entries of the expense are applied, and no error is produced.
C8_UnknownSplitIgnored ==
    (/\ SingleExpense
     /\ DividedBySplits(TheExpense)
     /\ HasUnknownSplit(TheExpense)
     /\ members # <<>>)
    => /\ pc # "error"
       /\ Balanced =>
              /\ Len(balances) = Len(members)
              /\ \A i \in DOMAIN balances :
                     /\ balances[i].id \in MemberIds(members)
                     /\ balances[i].balance
                        = (IF balances[i].id = TheExpense.paidBy
                           THEN TheExpense.amount ELSE 0)
                          - OwnSplitTotal(TheExpense, balances[i].id)

\* one entry names a stranger, the other a member who now owes its amount
C8_Witness ==
    /\ pc = "balanced"
    /\ SingleExpense
    /\ DividedBySplits(TheExpense)
    /\ HasUnknownSplit(TheExpense)
    /\ HasKnownSplit(TheExpense)
    /\ \E i \in DOMAIN balances :
           /\ balances[i].id # TheExpense.paidBy
           /\ balances[i].balance < 0

\* C9: for any members and any expense (unknown payer, unknown split ids,
\* splits that do not total the amount, absent or empty split list) the
\* balance computation returns a balance per member and calculateSettlements
\* returns its entries; no step fails and no step is left without a
\* successor before the entries are returned.
C9_NoError ==
    /\ pc # "error"
    /\ Balanced => Len(balances) = Len(members)
    /\ pc = "settled" \/ ENABLED NextSingle

\* a malformed expense (a stranger in the splits, splits short of the
\* amount) settled with an entry
C9_Witness ==
    /\ pc = "settled"
    /\ SingleExpense
    /\ DividedBySplits(TheExpense)
    /\ HasUnknownSplit(TheExpense)
    /\ SplitTotal(TheExpense) # TheExpense.amount
    /\ Len(settlements) > 0

\* C10: the balance computation returns exactly one balance per member, in
\* the order of the member sequence, whatever the id strings are.
C10_BalancesInMemberOrder ==
    Balanced
    => /\ Len(balances) = Len(members)
       /\ \A i \in DOMAIN balances : balances[i].id = members[i].id

\* C11: for a non-empty member list and an empty expense list, one balance
\* per member is returned and every balance amount is exactly 0.
C11_NoExpensesAllZero ==
    (Balanced /\ members # <<>> /\ expenses = <<>>)
    => /\ Len(balances) = Len(members)
       /\ \A i \in DOMAIN balances : balances[i].balance = 0

\* three members, no expense, three balances returned
C11_Witness ==
    /\ pc = "balanced"
    /\ Len(members) = 3
    /\ expenses = <<>>
    /\ Len(balances) = 3
    /\ \A i \in DOMAIN balances : balances[i].balance = 0

\* C12: for a group without members the balance computation returns the
\* empty sequence whatever the expense list is, and the expense callback,
\* which divides by the member count, is never run.
C12_NoMembersEmpty ==
    members = <<>>
    => /\ pc \in {"start", "balanced"}
       /\ processed = 0
       /\ Balanced => balances = <<>>

\* no members, two expenses of which one is split equally
C12_Witness ==
    /\ pc = "balanced"
    /\ members = <<>>
    /\ Len(expenses) = 2
    /\ expenses[1].splitType = "equal"
    /\ balances = <<>>

AllZero == \A i \in DOMAIN balances : balances[i].balance = 0

\* C13: calculateSettlements applied to balances that are all zero, or to
\* an empty list of balances, puts nobody in its working lists and returns
\* an empty sequence of entries.
C13_AllZeroNoEntries ==
    (pc \in {"settling", "settled"} /\ AllZero)
    => /\ debtors = <<>>
       /\ creditors = <<>>
       /\ settlements = <<>>

\* three balances of zero, and the planner has returned no entry
C13_Witness ==
    /\ pc = "settled"
    /\ Len(balances) = 3
    /\ AllZero
    /\ settlements = <<>>

\* C14: in a group of three, one Equal expense of 90 paid by member A gives
\* A the balance 60 and each of the other two -30, and the planner on those
\* balances returns exactly two entries, in either order: each of the other
\* two pays A 30.
C14_EndToEnd ==
    (/\ Len(members) = 3
     /\ SingleExpense
     /\ TheExpense.splitType = "equal"
     /\ TheExpense.amount = Lira(90)
     /\ PayerIsMember(TheExpense))
    => /\ Balanced =>
              \A m \in DOMAIN members :
                  /\ HasBalance(members[m].id)
                  /\ BalanceOf(members[m].id)
                     = IF members[m].id = TheExpense.paidBy
                       THEN Lira(60) ELSE 0 - Lira(30)
       /\ pc = "settled" =>
              /\ Len(settlements) = 2
              /\ {settlements[i] : i \in DOMAIN settlements}
                 = {Entry(Member(b), Member(TheExpense.paidBy), Lira(30)) :
                        b \in MemberIds(members) \ {TheExpense.paidBy}}

\* members "a", "1", "2", 90 paid by "a": two entries returned
C14_Witness ==
    /\ pc = "settled"
    /\ members = <<Member("a"), Member("1"), Member("2")>>
    /\ SingleExpense
    /\ TheExpense.splitType = "equal"
    /\ TheExpense.amount = Lira(90)
    /\ TheExpense.paidBy = "a"
    /\ Len(settlements) = 2
    /\ settlements[1].to.id = "a"
    /\ settlements[2].to.id = "a"
    /\ settlements[1].amount = Lira(30)

\* C15: both computations are deterministic and carry no state from one
\* call to the next: whenever the balance computation returns for the same
\* members and expenses it returns the balances every earlier call returned,
\* and whenever calculateSettlements returns for the same balances it
\* returns the sequence of entries (from, to, amount, order) every earlier
\* call returned.
C15_SameResultEveryCall ==
    /\ pc = "balanced" =>
           \A i \in DOMAIN earlier :
               earlier[i].of = "balances" => earlier[i].result = balances
    /\ pc = "settled" =>
           \A i \in DOMAIN earlier :
               earlier[i].of = "settlements"
               => earlier[i].result = settlements

\* both computations have returned a second time, the planner with entries
C15_Witness ==
    /\ pc = "settled"
    /\ Len(earlier) = 2
    /\ earlier[1].of = "balances"
    /\ earlier[2].of = "settlements"
    /\ earlier[1].result = balances
    /\ Len(settlements) = 2
    /\ earlier[2].result = settlements

\* C16: calculateSettlements leaves the array passed in unchanged: no step
\* of a call changes the id, name or balance of a record of the input,
\* although the balances of the working lists change while it runs.
C16_InputUnchanged ==
    [][(pc \in {"balanced", "settling"}) => (balances' = balances)]_vars

\* the debtor at the head of the list has been paid in part: its working
\* balance differs from the balance of its record in the input
C16_Witness ==
    /\ pc = "settling"
    /\ debtors # <<>>
    /\ Len(settlements) >= 1
    /\ \E i \in DOMAIN balances :
           /\ balances[i].id = debtors[1].id
           /\ balances[i].balance < debtors[1].balance

\* id is in the list of working records s
Listed(s, id) == \E k \in DOMAIN s : s[k].id = id

\* id is the from or the to of an emitted entry
Named(id) ==
    \E k \in DOMAIN settlements :
        settlements[k].from.id = id \/ settlements[k].to.id = id

\* C17: an input balance whose absolute amount is within 0.01 of zero (the
\* tolerance of the removal tests) is placed in neither the debtor list nor
\* the creditor list, and no emitted entry has its member as from or to.
C17_NearZeroExcluded ==
    pc \in {"settling", "settled"}
    => \A i \in DOMAIN balances :
           Abs(balances[i].balance) < Tolerance
           => /\ ~Listed(debtors, balances[i].id)
              /\ ~Listed(creditors, balances[i].id)
              /\ ~Named(balances[i].id)

\* C18: when the input balances sum to zero, the loop ends with the debtor
\* list and the creditor list both empty.
C18_BothListsEmpty ==
    (pc = "settled" /\ SumBalances = 0)
    => debtors = <<>> /\ creditors = <<>>

\* C19: at the start of every iteration of the loop, the head of the debtor
\* list has the most negative current amount of the remaining debtors and
\* the head of the creditor list the largest current amount of the
\* remaining creditors.
C19_HeadsExtreme ==
    (pc = "settling" /\ LoopCondition(debtors, creditors))
    => /\ \A k \in DOMAIN debtors : debtors[1].balance <= debtors[k].balance
       /\ \A k \in DOMAIN creditors :
              creditors[1].balance >= creditors[k].balance

\* C20: for an expense of split type Unequal that holds a split list, empty
\* or not, each member's balance is the amount if the member paid, else 0,
\* minus the amounts of the split entries that name the member: nothing
\* else is subtracted, and nothing at all for an empty split list.
C20_UnequalSubtractsSplitsOnly ==
    (/\ Balanced
     /\ SingleExpense
     /\ TheExpense.splitType = "unequal"
     /\ TheExpense.hasSplits)
    => \A i \in DOMAIN balances :
           balances[i].balance
           = (IF balances[i].id = TheExpense.paidBy
              THEN TheExpense.amount ELSE 0)
             - OwnSplitTotal(TheExpense, balances[i].id)

\* the balance passed in for id
InputOf(id) ==
    balances[CHOOSE i \in DOMAIN balances : balances[i].id = id].balance

\* an iteration of the loop has pushed an entry
Pushed == pc = "settling" /\ Len(settlements') = Len(settlements) + 1

LastEntry == settlements'[Len(settlements')]

\* C21: every entry emitted has as amount the minimum of the head debtor's
\* debt and the head creditor's credit at that iteration, and that amount
\* is strictly greater than 0.
C21_AmountIsMinimum ==
    [][Pushed =>
          /\ LastEntry.amount <= 0 - debtors[1].balance
          /\ LastEntry.amount <= creditors[1].balance
          /\ \/ LastEntry.amount = 0 - debtors[1].balance
             \/ LastEntry.amount = creditors[1].balance
          /\ LastEntry.amount > 0
          /\ LastEntry.from.id = debtors[1].id
          /\ LastEntry.to.id = creditors[1].id]_vars

\* two entries to one creditor, each the whole debt of its debtor and less
\* than the credit the creditor had left
C21_Witness ==
    /\ pc = "settled"
    /\ Len(settlements) = 2
    /\ settlements[1].to.id = settlements[2].to.id
    /\ settlements[1].from.id # settlements[2].from.id
    /\ settlements[1].amount = 0 - InputOf(settlements[1].from.id)
    /\ settlements[2].amount = 0 - InputOf(settlements[2].from.id)
    /\ settlements[1].amount + settlements[2].amount
       < InputOf(settlements[1].to.id)

\* C22: the loop terminates for every list of balances, whether or not
\* they sum to zero: each iteration removes at least one member from the
\* debtor list or the creditor list, an iteration is run only while both
\* lists hold a member, and the call returns.
C22_Terminates ==
    /\ [][pc = "settling" =>
              /\ Len(debtors') + Len(creditors')
                 < Len(debtors) + Len(creditors)
              /\ debtors # <<>> /\ creditors # <<>>
              /\ pc' = "settling"
           \/ /\ debtors = <<>> \/ creditors = <<>>
              /\ pc' = "settled"]_vars
    /\ (pc = "settling") ~> (pc = "settled")

\* a call on balances that do not sum to zero has returned after three
\* iterations, with a debtor left
C22_Witness ==
    /\ pc = "settled"
    /\ SumBalances # 0
    /\ Len(settlements) = 3
    /\ debtors # <<>>

\* C23: no overpayment: a debtor's working amount is never positive and a
\* creditor's never negative, and for every member the entries the member
\* pays total at most the input debt and the entries the member receives
\* total at most the input credit.
C23_NoOverpayment ==
    pc \in {"settling", "settled"}
    => /\ \A k \in DOMAIN debtors : debtors[k].balance <= 0
       /\ \A k \in DOMAIN creditors : creditors[k].balance >= 0
       /\ \A i \in DOMAIN balances :
              /\ Paid(balances[i].id)
                 <= (IF balances[i].balance < 0
                     THEN 0 - balances[i].balance ELSE 0)
              /\ Received(balances[i].id)
                 <= (IF balances[i].balance > 0
                     THEN balances[i].balance ELSE 0)

\* a debtor has paid two entries, and the creditor of the first has
\* received the whole input credit
C23_Witness ==
    /\ pc = "settled"
    /\ Len(settlements) >= 2
    /\ settlements[1].from.id = settlements[2].from.id
    /\ Received(settlements[1].to.id) = InputOf(settlements[1].to.id)
    /\ Paid(settlements[1].from.id) < 0 - InputOf(settlements[1].from.id)

\* C24: every entry goes from a member whose input balance is negative to
\* a member whose input balance is positive; no member is the from of one
\* entry and the to of another, and from and to of an entry differ.
C24_DebtorsPayCreditors ==
    pc \in {"settling", "settled"}
    => /\ \A k \in DOMAIN settlements :
              /\ Listed(balances, settlements[k].from.id)
              /\ Listed(balances, settlements[k].to.id)
              /\ InputOf(settlements[k].from.id) < 0
              /\ InputOf(settlements[k].to.id) > 0
              /\ settlements[k].from.id # settlements[k].to.id
       /\ \A k, l \in DOMAIN settlements :
              settlements[k].from.id # settlements[l].to.id

\* three entries from two debtors to three creditors
C24_Witness ==
    /\ pc = "settled"
    /\ Len(settlements) = 3
    /\ Cardinality({settlements[k].from.id : k \in DOMAIN settlements}) = 2
    /\ Cardinality({settlements[k].to.id : k \in DOMAIN settlements}) = 3

\* the orders in which n expenses can be listed
Orders(n) == {f \in [1..n -> 1..n] : Injective(f)}

Reordered(exps, f) == [i \in DOMAIN exps |-> exps[f[i]]]

\* every order of the expense list gives the balances that were computed
OrderIndependent ==
    \A f \in Orders(Len(expenses)) :
        ComputeBalances(members, Reordered(expenses, f)) = balances

\* C25 as stated: the computed balances do not depend on the order of the
\* expenses: any permutation of the expense list over the same members
\* gives the same balance for every member.
C25_AnyOrderSameBalances ==
    pc = "balanced" => OrderIndependent

\* the amounts of the expenses add up to less than 2^Precision ticks, so
\* that no sum or difference of the computation is rounded
NothingRounded ==
    SumSeq([i \in DOMAIN expenses |-> expenses[i].amount]) < Pow2(Precision)

\* C25 as amended: when no sum of the computation is rounded, the computed
\* balances do not depend on the order of the expenses: any permutation of
\* the expense list over the same members gives the same balance for every
\* member.
C25_SameBalancesUnlessRounded ==
    (pc = "balanced" /\ NothingRounded) => OrderIndependent

\* two expenses of different amounts and payers in a group of two, and a
\* member who owes money
C25_Witness ==
    /\ pc = "balanced"
    /\ NothingRounded
    /\ Len(members) = 2
    /\ Len(expenses) = 2
    /\ expenses[1].amount # expenses[2].amount
    /\ expenses[1].paidBy # expenses[2].paidBy
    /\ PayerIsMember(expenses[1])
    /\ PayerIsMember(expenses[2])
    /\ \E i \in DOMAIN balances : balances[i].balance < 0
    /\ OrderIndependent

\* what the expense form holds that handleSubmit may admit: a description,
\* an amount that parses to a number above 0, a payer, and, for an unequal
\* split, split amounts whose sum is within 0.01 of the amount
Admissible(form) ==
    /\ form.description # ""
    /\ ~parseFloat(form.amount).nan
    /\ parseFloat(form.amount).value > 0
    /\ form.paidBy # ""
    /\ form.splitType = "unequal" =>
          LET total == SumSeq([i \in DOMAIN form.splits |->
                                  parsedOrZero(form.splits[i].amount)])
          IN  Abs(parseFloat(form.amount).value - total) <= Cent

\* the step appended one expense made of the form to the form's group and
\* left the other expenses as they were
AdmittedStep ==
    /\ Len(groups') = Len(groups)
    /\ \A i \in DOMAIN groups :
          IF groups[i].id = selectedGroupId
          THEN /\ Len(groups'[i].expenses) = Len(groups[i].expenses) + 1
               /\ SubSeq(groups'[i].expenses, 1, Len(groups[i].expenses))
                      = groups[i].expenses
               /\ LET e == groups'[i].expenses[Len(groups'[i].expenses)]
                  IN  /\ e.description = newExpense.description
                      /\ e.amount = parseFloat(newExpense.amount).value
                      /\ e.paidBy = newExpense.paidBy
                      /\ e.splitType = newExpense.splitType
          ELSE groups'[i] = groups[i]

\* C26: a submit of the expense form adds an expense to the group only when
\* the description is non-empty, the amount parses to a number above 0, a
\* payer is chosen and, for an unequal split, the split amounts are within
\* 0.01 of the amount; then it adds exactly that expense; every other submit
\* leaves the groups unchanged and sets an error message.
C26_FormAdmitsOnlyValid ==
    [][handleSubmit =>
          IF Admissible(newExpense)
          THEN AdmittedStep
          ELSE (groups' = groups) /\ (error' # "")]_vars

\* an unequal split of 100 into 30 and 70 was admitted, and the form reset
C26_Witness ==
    /\ Len(groups) = 1
    /\ Len(groups[1].expenses) = 1
    /\ groups[1].expenses[1].splitType = "unequal"
    /\ groups[1].expenses[1].amount = Lira(100)
    /\ groups[1].expenses[1].splits =
           <<[memberId |-> "1", amount |-> Lira(30)],
             [memberId |-> "2", amount |-> Lira(70)]>>
    /\ error = ""
    /\ newExpense = EmptyForm("1")

\* C27: syncStatus is never 'error'; once the data is loaded, a step that
\* changes user or groups sets syncStatus to 'saving' and leaves one save
\* pending, that of the new user and groups; whatever is written to the
\* storage is the user and groups of that moment; and a pending save is
\* followed by a state in which it has run and syncStatus is 'synced'.
C27_DebouncedSave ==
    /\ [](syncStatus # "error")
    /\ [][(isDataLoaded' /\ (user' # user \/ groups' # groups)) =>
             /\ syncStatus' = "saving"
             /\ timer' = [pending |-> TRUE, user |-> user',
                          groups |-> groups']]_vars
    /\ [][(storage' # storage) =>
             (storage' = Item(Stringify([user |-> user,
                                         groups |-> groups])))]_vars
    /\ (timer.pending ~> (syncStatus = "synced" /\ ~timer.pending))

\* an expense was added, the save ran after it and wrote the groups with the
\* expense
C27_Witness ==
    /\ called = <<"handleAddExpense", "save">>
    /\ syncStatus = "synced"
    /\ ~timer.pending
    /\ user # Null
    /\ TotalExpenses(groups, Len(groups)) > 0
    /\ storage = Item(Stringify([user |-> user, groups |-> groups]))

\* the last handler or timeout that ran
LastCalled == IF called = <<>> THEN "" ELSE called[Len(called)]

\* what handleLogout leaves, and what a login starts with
LogoutAndLogin ==
    /\ [][handleLogout =>
             /\ user' = Null
             /\ groups' = <<>>
             /\ currentView' = "dashboard"]_vars
    /\ [][handleLogin =>
             \/ groups' = <<>>
             \/ /\ pendingInvite # NoJoinData
                /\ Len(groups') = 1
                /\ groups'[1].name = Decode(pendingInvite).value.name]_vars

OneAppended(before, after, newExp) ==
    /\ after.id = before.id
    /\ after.name = before.name
    /\ after.members = before.members
    /\ after.createdAt = before.createdAt
    /\ Len(after.expenses) = Len(before.expenses) + 1
    /\ SubSeq(after.expenses, 1, Len(before.expenses)) = before.expenses
    /\ LET e == after.expenses[Len(after.expenses)]
       IN  /\ e.description = newExp.description
           /\ e.amount = newExp.amount
           /\ e.paidBy = newExp.paidBy
           /\ e.splitType = newExp.splitType
           /\ e.splits = newExp.splits

\* C29: a call handleAddExpense(groupId, newExp) with a logged-in user and a
\* group id keeps the list of groups as long as it was, appends exactly one
\* expense, made of newExp, to the end of the expenses of every group whose
\* id is groupId, keeps that group's members and earlier expenses, and
\* keeps every other group as it was; with no user or no group id it keeps
\* user, groups, the pending save, syncStatus and the storage as they were.
C29_AddExpenseAppendsOne ==
    [][\A groupId \in CallerGroupIds : \A newExp \in CallerExpenses :
          \A t \in Times :
             handleAddExpense(groupId, newExp, t) =>
                IF user = Null \/ groupId = ""
                THEN /\ groups' = groups
                     /\ user' = user
                     /\ timer' = timer
                     /\ syncStatus' = syncStatus
                     /\ storage' = storage
                ELSE /\ user' = user
                     /\ Len(groups') = Len(groups)
                     /\ \A i \in DOMAIN groups :
                           IF groups[i].id = groupId
                           THEN OneAppended(groups[i], groups'[i], newExp)
                           ELSE groups'[i] = groups[i]]_vars

\* a second expense was appended to the first group, after its earlier
\* expense, and the second group has none
C29_Witness ==
    /\ LastCalled = "handleAddExpense"
    /\ Len(groups) = 2
    /\ groups[1].id = "group_1"
    /\ groups[2].id = "group_2"
    /\ Len(groups[1].expenses) = 2
    /\ groups[1].expenses[1].paidBy = "1"
    /\ groups[1].expenses[2].paidBy = "2"
    /\ groups[2].expenses = <<>>

\* the list after has the groups of the list before and, at its end, one
\* more, named name
OneGroupAppended(before, after, name) ==
    /\ Len(after) = Len(before) + 1
    /\ SubSeq(after, 1, Len(before)) = before
    /\ after[Len(after)].name = name

\* C30: when the load effect finds a stored user and joinData in the URL,
\* the groups it sets are the stored groups if joinData cannot be decoded or
\* a stored group has the invite's name, and the stored groups with exactly
\* one group, of the invite's name, appended otherwise; in every case
\* joinData is gone from the URL afterwards.
C30_InviteAtLoad ==
    [][(LoadData /\ loadDataFromStorage(storage).user # Null
                 /\ joinData # NoJoinData) =>
          LET stored == loadDataFromStorage(storage).groups
              invite == Decode(joinData)
          IN  /\ joinData' = NoJoinData
              /\ IF ~invite.ok
                 THEN groups' = stored
                 ELSE IF \E i \in DOMAIN stored :
                            stored[i].name = invite.value.name
                      THEN groups' = stored
                      ELSE OneGroupAppended(stored, groups',
                                            invite.value.name)]_vars

\* the invite to Home was appended at load to the stored groups, which are
\* as many as the stored data holds, and the URL has no joinData
C30_Witness ==
    /\ called = <<"load">>
    /\ user # Null
    /\ Len(groups) = MaxGroups + 1
    /\ groups[Len(groups)].name = "Home"
    /\ \A i \in 1..MaxGroups : groups[i].name = "Trip"
    /\ joinData = NoJoinData

====
